---- MODULE Spec2Model ----
(***************************************************************************)
(* Credit-metered generation gateway of Banner-Creator-Outdoors.           *)
(*                                                                         *)
(* The model covers the request handlers of the two backends and the      *)
(* client service that orchestrates them:                                  *)
(*   - functions/src/index.ts : Cloud Function (get user, generate)        *)
(*   - unnamed/part_002       : server-proxy handlers (get user, deduct,   *)
(*                              refund, PayPal capture, generate prompt,   *)
(*                              generate background)                       *)
(*   - unnamed/part_001       : client service that calls deduct-credit,   *)
(*                              then the provider, then refund-credit      *)
(* Every request is a process; one action is one stretch of handler code   *)
(* between two awaits on the store or on an external service.  A Firestore *)
(* transaction (db.runTransaction) and a FieldValue.increment are single   *)
(* atomic steps; a get followed by a set/update is two steps.              *)
(***************************************************************************)
EXTENDS Integers, Sequences, FiniteSets, TLC

VARIABLES
  users,    \* the 'users' collection: one document per email
  clock,    \* number of documents created so far (source of createdAt)
  apiKey,   \* whether process.env.API_KEY / GEMINI_API_KEY is set
  req,      \* one record per request: handler position, locals, response
  mobile    \* the mobile app: component state and its handlers' positions

vars == <<users, clock, apiKey, req, mobile>>

\* The backend's state, which the mobile app's handlers do not touch.
backend == <<users, clock, apiKey, req>>

-----------------------------------------------------------------------------
(* Bounds *)

\* Requests per specification (see Specifications below).
NumReq == 2

NumReserve == 3

NumLedger == 2

NumGen == 2

NumBoot == 3

NumSeq == 3

\* Largest balance an account starts with.
MaxInitCredits == 2

NumE2E == 4

NumCapture == 3

NumMock == 2

NumTwo == 2

\* Balance of the accounts that exist at the start of the two-account runs.
TwoInitCredits == 1

NumLive == 2

NumCrash == 2

\* Generate calls made from the mobile app.
MaxMobileGens == 6

AllNums == {NumReq, NumReserve, NumLedger, NumGen, NumBoot, NumSeq, NumE2E,
            NumCapture, NumMock, NumTwo, NumLive, NumCrash}

Procs == 1..(CHOOSE n \in AllNums : \A m \in AllNums : m <= n)

\* The emails requests are made for: the keys of the collection, fixed by
\* the initial state.
Emails == DOMAIN users

OneEmail == {"a@x.com"}

TwoEmails == {"a@x.com", "b@x.com"}

-----------------------------------------------------------------------------
(* Program constants *)

FreeCredits == 5

ProBonus == 100

Amount == 1

-----------------------------------------------------------------------------
(* Error messages.  They are kept as the strings the code compares and     *)
(* searches, so that String.includes is computed, not assumed.             *)

MsgUserNotFound == "User not found"

MsgInsufficient == "Insufficient credits"

MsgNoImage == "AI returned no image"

MsgNoApiKey == "API Key not found"

\* Messages a failing provider call can raise: an SDK error that names the
\* SDK, a network failure, and a provider status.
ProviderErrors == {"GoogleGenAI: request failed", "fetch failed", "UNAVAILABLE"}

\* Messages a failing Firestore call can raise (gRPC status names).
StorageErrors == {"UNAVAILABLE", "DEADLINE_EXCEEDED"}

\* String.prototype.includes
Includes(s, sub) ==
  \E i \in 1..(Len(s) - Len(sub) + 1) : SubSeq(s, i, i + Len(sub) - 1) = sub

-----------------------------------------------------------------------------
(* Documents *)

NoDoc == [exists |-> FALSE, credits |-> 0, isPro |-> FALSE, createdAt |-> 0]

\* Mutant: new accounts start as Pro.
NewUserPro(now) ==
  [exists |-> TRUE, credits |-> FreeCredits, isPro |-> TRUE, createdAt |-> now]

\* newUser of getOrCreateUser
NewUser(now) ==
  [exists |-> TRUE, credits |-> FreeCredits, isPro |-> FALSE, createdAt |-> now]

InitDocs ==
  {NoDoc} \cup
  {[exists |-> TRUE, credits |-> c, isPro |-> FALSE, createdAt |-> 0] :
     c \in 0..MaxInitCredits}

-----------------------------------------------------------------------------
(* Requests *)

IdleReq ==
  [pc |-> "idle", kind |-> "none", email |-> "",
   thrown |-> "",         \* the caught error's message
   thrownBy |-> "",       \* what raised it: reserve, config, provider, store
   seenCredits |-> 0,     \* credits of a document read outside a transaction
   status |-> 0, message |-> "", credits |-> -1, payload |-> FALSE, \* response
   reserved |-> FALSE,    \* this request's reservation committed
   invoked |-> 0,         \* provider calls made by this request
   refunded |-> 0,        \* refund writes applied by this request
   created |-> FALSE,     \* this request wrote the default document
   granted |-> FALSE,     \* this request wrote the paid grant
   refundFailed |-> FALSE,\* a refund write of this request failed
   captureStatus |-> "",  \* captureData.status, or "error" if the call threw
   snapExists |-> FALSE,  \* doc.exists of a mock-store snapshot
   startBal |-> 0]        \* balance when the request arrived

InFlight(r) == r.pc \notin {"idle", "done"}

\* A request arrives: the handler runs up to its first await.
Begin(p, k, e, pc0) ==
  [req EXCEPT ![p] = [@ EXCEPT !.pc = pc0, !.kind = k, !.email = e,
                               !.startBal = users[e].credits]]

\* throw new Error(m)
Throw(r, m, by) == [r EXCEPT !.thrown = m, !.thrownBy = by]

\* Requests are taken in order of their number (they are interchangeable).
CanBegin(p) ==
  /\ req[p].pc = "idle"
  /\ IF p = 1 THEN TRUE ELSE req[p - 1].pc # "idle"

\* res.status(s).json(...)
Respond(r, s, m, c, pl) ==
  [r EXCEPT !.pc = "done", !.status = s, !.message = m, !.credits = c,
            !.payload = pl]

-----------------------------------------------------------------------------
(* getOrCreateUser and the get-user route *)

StartGetUser(p) ==
  /\ CanBegin(p)
  /\ \E e \in Emails : req' = Begin(p, "getUser", e, "gu_get")
  /\ UNCHANGED <<users, clock, apiKey, mobile>>

\* Mutant: the document is written without looking at doc.exists.
GetUserReadNoCheck(p) ==
  /\ req[p].pc = "gu_get"
  /\ req' = [req EXCEPT ![p].pc = "gu_set"]
  /\ UNCHANGED <<users, clock, apiKey, mobile>>

\* const doc = await userRef.get()
GetUserRead(p) ==
  /\ req[p].pc = "gu_get"
  /\ LET e == req[p].email IN
       \/ /\ users[e].exists
          /\ req' = [req EXCEPT ![p] =
                       Respond(@, 200, "", users[e].credits, FALSE)]
       \/ /\ ~users[e].exists
          /\ req' = [req EXCEPT ![p].pc = "gu_set"]
       \/ req' = [req EXCEPT ![p] =
                    Respond(@, 500, "Failed to fetch user profile", -1, FALSE)]
  /\ UNCHANGED <<users, clock, apiKey, mobile>>

\* await userRef.set(newUser); return newUser
GetUserSet(p) ==
  /\ req[p].pc = "gu_set"
  /\ LET e == req[p].email IN
       \/ /\ users' = [users EXCEPT ![e] = NewUser(clock + 1)]
          /\ clock' = clock + 1
          /\ req' = [req EXCEPT ![p] =
                       [Respond(@, 200, "", FreeCredits, FALSE)
                          EXCEPT !.created = TRUE]]
       \/ /\ req' = [req EXCEPT ![p] =
                       Respond(@, 500, "Failed to fetch user profile", -1, FALSE)]
          /\ UNCHANGED <<users, clock>>
  /\ UNCHANGED <<apiKey, mobile>>

-----------------------------------------------------------------------------
(* The reservation transaction shared by every metered handler *)

\* Mutant: the balance check is off by one.
InsufficientCreditsOffByOne(doc) == doc.credits < Amount - 1

\* if (!data || data.credits < 1)
InsufficientCredits(doc) == doc.credits < Amount

\* Mutant: the transaction does not look at doc.exists.
ReserveErrorNoExistsCheck(doc) ==
  IF InsufficientCredits(doc) THEN MsgInsufficient ELSE ""

\* What the transaction callback throws on this document ("" : it commits).
ReserveError(doc) ==
  IF ~doc.exists THEN MsgUserNotFound
  ELSE IF InsufficientCredits(doc) THEN MsgInsufficient
  ELSE ""

\* Mutant: the update takes two credits where the check allowed for one.
DeductedTwice(doc) == [doc EXCEPT !.credits = doc.credits - 2 * Amount]

\* t.update(userRef, { credits: data.credits - 1 })
Deducted(doc) == [doc EXCEPT !.credits = doc.credits - Amount]

\* FieldValue.increment(1) / credits + amount
Incremented(doc) == [doc EXCEPT !.credits = doc.credits + Amount]

\* error.message === "Insufficient credits" ? 403 : 500
StatusCode(m) == IF m = MsgInsufficient THEN 403 ELSE 500

-----------------------------------------------------------------------------
(* Cloud Function: POST /api/generate-background (functions/src/index.ts) *)

\* Mutant: every caught error is refunded.
CfRefundEligibleAlways(m) == Len(m) >= 0

\* if (error.message?.includes("AI") || error.message?.includes("GoogleGenAI"))
CfRefundEligible(m) == Includes(m, "AI") \/ Includes(m, "GoogleGenAI")

\* The catch block up to its first await: either the refund is issued or
\* the error response is sent.
CfCatch(r) ==
  IF CfRefundEligible(r.thrown)
    THEN [r EXCEPT !.pc = "cf_refund"]
    ELSE Respond(r, StatusCode(r.thrown), r.thrown, -1, FALSE)

StartCfGenerate(p) ==
  /\ CanBegin(p)
  /\ \E e \in Emails, valid \in BOOLEAN :
       req' = IF ~valid
                THEN [Begin(p, "cfGenerate", e, "done") EXCEPT ![p] =
                        Respond(@, 400, "Theme and Email are required", -1, FALSE)]
              ELSE IF ~apiKey
                THEN [Begin(p, "cfGenerate", e, "done") EXCEPT ![p] =
                        Respond(@, 500, "Server misconfiguration: API Key missing",
                                -1, FALSE)]
              ELSE Begin(p, "cfGenerate", e, "cf_txn")
  /\ UNCHANGED <<users, clock, apiKey, mobile>>

\* Mutant: the transaction is not awaited; the handler goes on to the
\* provider call whatever the transaction does.
CfReserveNoAwait(p) ==
  /\ req[p].pc = "cf_txn"
  /\ req' = [req EXCEPT ![p].pc = "cf_call"]
  /\ UNCHANGED <<users, clock, apiKey, mobile>>

\* await db.runTransaction(...)
CfReserve(p) ==
  /\ req[p].pc = "cf_txn"
  /\ LET e == req[p].email IN
       \/ /\ ReserveError(users[e]) = ""
          /\ users' = [users EXCEPT ![e] = Deducted(@)]
          /\ req' = [req EXCEPT ![p].pc = "cf_call", ![p].reserved = TRUE]
       \/ /\ ReserveError(users[e]) # ""
          /\ req' = [req EXCEPT ![p] =
                       CfCatch(Throw(@, ReserveError(users[e]), "reserve"))]
          /\ UNCHANGED users
       \/ /\ \E m \in StorageErrors :
               req' = [req EXCEPT ![p] = CfCatch(Throw(@, m, "reserve"))]
          /\ UNCHANGED users
  /\ UNCHANGED <<clock, apiKey, mobile>>

\* await ai.models.generateContent(...) and the extraction of the image
CfInvoke(p) ==
  /\ req[p].pc = "cf_call"
  /\ \/ req' = [req EXCEPT ![p].pc = "cf_read", ![p].invoked = @ + 1]
     \/ req' = [req EXCEPT ![p] =
                  CfCatch(Throw([@ EXCEPT !.invoked = @ + 1],
                                MsgNoImage, "provider"))]
     \/ \E m \in ProviderErrors :
          req' = [req EXCEPT ![p] =
                    CfCatch(Throw([@ EXCEPT !.invoked = @ + 1], m, "provider"))]
  /\ UNCHANGED <<users, clock, apiKey, mobile>>

\* Mutant: the response carries the balance the request found on arrival.
CfFinalReadStale(p) ==
  /\ req[p].pc = "cf_read"
  /\ req' = [req EXCEPT ![p] = Respond(@, 200, "", req[p].startBal, TRUE)]
  /\ UNCHANGED <<users, clock, apiKey, mobile>>

\* const finalUserDoc = await userRef.get(); res.status(200).json(...)
CfFinalRead(p) ==
  /\ req[p].pc = "cf_read"
  /\ LET e == req[p].email IN
       \/ req' = [req EXCEPT ![p] = Respond(@, 200, "", users[e].credits, TRUE)]
       \/ \E m \in StorageErrors :
            req' = [req EXCEPT ![p] = CfCatch(Throw(@, m, "store"))]
  /\ UNCHANGED <<users, clock, apiKey, mobile>>

\* Mutant: the refund write is not wrapped in try/catch; its error replaces
\* the provider's.
CfRefundUncaught(p) ==
  /\ req[p].pc = "cf_refund"
  /\ LET e == req[p].email
         m == req[p].thrown
     IN
       \/ /\ users[e].exists
          /\ users' = [users EXCEPT ![e] = Incremented(@)]
          /\ req' = [req EXCEPT ![p] =
                       Respond([@ EXCEPT !.refunded = @ + 1],
                               StatusCode(m), m, -1, FALSE)]
       \/ /\ \E x \in StorageErrors :
               req' = [req EXCEPT ![p] =
                         Respond([@ EXCEPT !.refundFailed = TRUE],
                                 StatusCode(x), x, -1, FALSE)]
          /\ UNCHANGED users
  /\ UNCHANGED <<clock, apiKey, mobile>>

\* await userRef.update({ credits: FieldValue.increment(1) }) in try/catch,
\* then the error response
CfRefund(p) ==
  /\ req[p].pc = "cf_refund"
  /\ LET e == req[p].email
         m == req[p].thrown
     IN
       \/ /\ users[e].exists
          /\ users' = [users EXCEPT ![e] = Incremented(@)]
          /\ req' = [req EXCEPT ![p] =
                       Respond([@ EXCEPT !.refunded = @ + 1],
                               StatusCode(m), m, -1, FALSE)]
       \/ /\ req' = [req EXCEPT ![p] =
                       Respond([@ EXCEPT !.refundFailed = TRUE],
                               StatusCode(m), m, -1, FALSE)]
          /\ UNCHANGED users
  /\ UNCHANGED <<clock, apiKey, mobile>>

\* Mutant: a watchdog gives the credit of a stopped request back.
CfStopWatchdog(p) ==
  \/ /\ req[p].pc \in {"cf_call", "cf_read", "cf_refund"}
     /\ req' = [req EXCEPT ![p].pc = "stopped"]
     /\ UNCHANGED <<users, clock, apiKey, mobile>>
  \/ /\ req[p].pc = "stopped" /\ req[p].reserved /\ req[p].refunded = 0
     /\ users' = [users EXCEPT ![req[p].email] = Incremented(@)]
     /\ req' = [req EXCEPT ![p].refunded = 1]
     /\ UNCHANGED <<clock, apiKey, mobile>>

\* The handler stops for good between its reservation and its response:
\* the instance running it is terminated, or the provider call never
\* returns.
CfStop(p) ==
  /\ req[p].pc \in {"cf_call", "cf_read", "cf_refund"}
  /\ req' = [req EXCEPT ![p].pc = "stopped"]
  /\ UNCHANGED <<users, clock, apiKey, mobile>>

-----------------------------------------------------------------------------
(* server-proxy: POST /api/deduct-credit and POST /api/refund-credit *)

StartDeductCredit(p) ==
  /\ CanBegin(p)
  /\ \E e \in Emails, valid \in BOOLEAN :
       req' = IF ~valid
                THEN [Begin(p, "deduct", e, "done") EXCEPT ![p] =
                        Respond(@, 400, "Email is required", -1, FALSE)]
                ELSE Begin(p, "deduct", e, "dc_txn")
  /\ UNCHANGED <<users, clock, apiKey, mobile>>

\* Mutant: the transaction cannot run while another request is waiting for
\* the provider, as if that request still held its transaction open.
DeductCreditBlocked(p) ==
  /\ req[p].pc = "dc_txn"
  /\ \A q \in Procs : req[q].pc # "cf_call"
  /\ LET e == req[p].email IN
       /\ ReserveError(users[e]) = ""
       /\ users' = [users EXCEPT ![e] = Deducted(@)]
       /\ req' = [req EXCEPT ![p] =
                    Respond([@ EXCEPT !.reserved = TRUE],
                            200, "", Deducted(users[e]).credits, FALSE)]
  /\ UNCHANGED <<clock, apiKey, mobile>>

\* Mutant: the update is written to some account, not to the request's.
DeductCreditAnyAccount(p) ==
  /\ req[p].pc = "dc_txn"
  /\ LET e == req[p].email IN
       /\ ReserveError(users[e]) = ""
       /\ \E f \in Emails : users' = [users EXCEPT ![f] = Deducted(users[e])]
       /\ req' = [req EXCEPT ![p] =
                    Respond([@ EXCEPT !.reserved = TRUE],
                            200, "", Deducted(users[e]).credits, FALSE)]
  /\ UNCHANGED <<clock, apiKey, mobile>>

\* handleDeductCredit: the transaction and the response
DeductCredit(p) ==
  /\ req[p].pc = "dc_txn"
  /\ LET e == req[p].email IN
       \/ /\ ReserveError(users[e]) = ""
          /\ users' = [users EXCEPT ![e] = Deducted(@)]
          /\ req' = [req EXCEPT ![p] =
                       Respond([@ EXCEPT !.reserved = TRUE],
                               200, "", Deducted(users[e]).credits, FALSE)]
       \/ /\ ReserveError(users[e]) # ""
          /\ req' = [req EXCEPT ![p] =
                       Respond(@, StatusCode(ReserveError(users[e])),
                               ReserveError(users[e]), -1, FALSE)]
          /\ UNCHANGED users
       \/ /\ \E m \in StorageErrors :
               req' = [req EXCEPT ![p] = Respond(@, StatusCode(m), m, -1, FALSE)]
          /\ UNCHANGED users
  /\ UNCHANGED <<clock, apiKey, mobile>>

StartRefundCredit(p) ==
  /\ CanBegin(p)
  /\ \E e \in Emails, valid \in BOOLEAN :
       req' = IF ~valid
                THEN [Begin(p, "refund", e, "done") EXCEPT ![p] =
                        Respond(@, 400, "Email is required", -1, FALSE)]
                ELSE Begin(p, "refund", e, "rf_txn")
  /\ UNCHANGED <<users, clock, apiKey, mobile>>

\* handleRefundCredit: the transaction and the response
RefundCredit(p) ==
  /\ req[p].pc = "rf_txn"
  /\ LET e == req[p].email IN
       \/ /\ users[e].exists
          /\ users' = [users EXCEPT ![e] = Incremented(@)]
          /\ req' = [req EXCEPT ![p] =
                       Respond([@ EXCEPT !.refunded = @ + 1],
                               200, "", Incremented(users[e]).credits, FALSE)]
       \/ /\ ~users[e].exists
          /\ req' = [req EXCEPT ![p] = Respond(@, 500, MsgUserNotFound, -1, FALSE)]
          /\ UNCHANGED users
       \/ /\ \E m \in StorageErrors :
               req' = [req EXCEPT ![p] = Respond(@, 500, m, -1, FALSE)]
          /\ UNCHANGED users
  /\ UNCHANGED <<clock, apiKey, mobile>>

-----------------------------------------------------------------------------
(* server-proxy on the in-memory store used when Firebase Admin cannot be  *)
(* initialised: POST /api/deduct-credit.  mockUsers is the variable users; *)
(* the mock never rejects.  runTransaction just calls the callback, whose  *)
(* only await is t.get: the snapshot's exists is fixed by get(), its       *)
(* data() reads mockUsers when called, and t.update writes mockUsers       *)
(* before the callback goes on.                                            *)

StartMockDeduct(p) ==
  /\ CanBegin(p)
  /\ \E e \in Emails, valid \in BOOLEAN :
       req' = IF ~valid
                THEN [Begin(p, "mockDeduct", e, "done") EXCEPT ![p] =
                        Respond(@, 400, "Email is required", -1, FALSE)]
                ELSE Begin(p, "mockDeduct", e, "md_get")
  /\ UNCHANGED <<users, clock, apiKey, mobile>>

\* t.get(userRef) -> ref.get(): { exists: !!mockUsers[id], data: () => ... }
MockDeductGet(p) ==
  /\ req[p].pc = "md_get"
  /\ LET e == req[p].email IN
       req' = [req EXCEPT ![p].pc = "md_txn",
                          ![p].snapExists = users[e].exists,
                          ![p].seenCredits = users[e].credits]
  /\ UNCHANGED <<users, clock, apiKey, mobile>>

\* Mutant: the snapshot holds the data as they were when get() was called.
MockDeductCommitSnapshot(p) ==
  /\ req[p].pc = "md_txn"
  /\ LET e == req[p].email
         credits == req[p].seenCredits
     IN
       IF ~req[p].snapExists
         THEN /\ req' = [req EXCEPT ![p] =
                           Respond(@, 500, MsgUserNotFound, -1, FALSE)]
              /\ UNCHANGED users
       ELSE IF credits < Amount
         THEN /\ req' = [req EXCEPT ![p] =
                           Respond(@, 403, MsgInsufficient, -1, FALSE)]
              /\ UNCHANGED users
       ELSE /\ users' = [users EXCEPT ![e].credits = credits - Amount]
            /\ req' = [req EXCEPT ![p] =
                         Respond([@ EXCEPT !.reserved = TRUE],
                                 200, "", credits - Amount, FALSE)]
  /\ UNCHANGED <<clock, apiKey, mobile>>

\* the callback after its await, and the response: doc.exists (snapshot),
\* doc.data() (mockUsers now), the checks, t.update, res.status(...)
MockDeductCommit(p) ==
  /\ req[p].pc = "md_txn"
  /\ LET e == req[p].email
         data == users[e]
     IN
       IF ~req[p].snapExists
         THEN /\ req' = [req EXCEPT ![p] =
                           Respond(@, StatusCode(MsgUserNotFound),
                                   MsgUserNotFound, -1, FALSE)]
              /\ UNCHANGED users
       ELSE IF ~data.exists \/ InsufficientCredits(data)
         THEN /\ req' = [req EXCEPT ![p] =
                           Respond(@, StatusCode(MsgInsufficient),
                                   MsgInsufficient, -1, FALSE)]
              /\ UNCHANGED users
       ELSE /\ users' = [users EXCEPT ![e] = Deducted(@)]
            /\ req' = [req EXCEPT ![p] =
                         Respond([@ EXCEPT !.reserved = TRUE],
                                 200, "", Deducted(data).credits, FALSE)]
  /\ UNCHANGED <<clock, apiKey, mobile>>

-----------------------------------------------------------------------------
(* server-proxy: POST /api/paypal/capture-order *)

\* What the payment processor answers to the capture call.
CaptureStatuses == {"COMPLETED", "PENDING"}

MsgPayPal == "PayPal credentials are not configured."

\* Mutant: the grant overwrites the balance instead of adding to it.
GrantedOverwrite(doc) == [doc EXCEPT !.credits = ProBonus, !.isPro = TRUE]

\* credits: (data.credits || 0) + 100, isPro: true
Granted(doc) == [doc EXCEPT !.credits = doc.credits + ProBonus, !.isPro = TRUE]

StartCapture(p) ==
  /\ CanBegin(p)
  /\ \E e \in Emails, valid \in BOOLEAN :
       req' = IF ~valid
                THEN [Begin(p, "capture", e, "done") EXCEPT ![p] =
                        Respond(@, 400, "Missing orderID or email", -1, FALSE)]
                ELSE Begin(p, "capture", e, "cp_call")
  /\ UNCHANGED <<users, clock, apiKey, mobile>>

\* Mutant: the grant transaction runs whatever status the processor reports.
CaptureCallAnyStatus(p) ==
  /\ req[p].pc = "cp_call"
  /\ \E st \in CaptureStatuses :
       req' = [req EXCEPT ![p].pc = "cp_txn", ![p].captureStatus = st]
  /\ UNCHANGED <<users, clock, apiKey, mobile>>

\* generatePayPalAccessToken, the capture call, captureData.status
CaptureCall(p) ==
  /\ req[p].pc = "cp_call"
  /\ \/ req' = [req EXCEPT ![p] =
                  Respond([@ EXCEPT !.captureStatus = "error"],
                          500, MsgPayPal, -1, FALSE)]
     \/ \E st \in CaptureStatuses :
          req' = IF st = "COMPLETED"
                   THEN [req EXCEPT ![p].pc = "cp_txn", ![p].captureStatus = st]
                   ELSE [req EXCEPT ![p] =
                           Respond([@ EXCEPT !.captureStatus = st],
                                   400, "", -1, FALSE)]
  /\ UNCHANGED <<users, clock, apiKey, mobile>>

\* Mutant: a capture is granted only if no earlier capture was; a replay is
\* rejected.
CaptureGrantOnce(p) ==
  /\ req[p].pc = "cp_txn"
  /\ LET e == req[p].email IN
       IF users[e].exists /\ \A q \in Procs : ~req[q].granted
         THEN /\ users' = [users EXCEPT ![e] = Granted(@)]
              /\ req' = [req EXCEPT ![p] =
                           Respond([@ EXCEPT !.granted = TRUE], 200, "", -1, TRUE)]
         ELSE /\ req' = [req EXCEPT ![p] =
                           Respond(@, 409, "ORDER_ALREADY_CAPTURED", -1, FALSE)]
              /\ UNCHANGED users
  /\ UNCHANGED <<clock, apiKey, mobile>>

\* the grant transaction and res.json({ success: true, captureData })
CaptureGrant(p) ==
  /\ req[p].pc = "cp_txn"
  /\ LET e == req[p].email IN
       \/ /\ users[e].exists
          /\ users' = [users EXCEPT ![e] = Granted(@)]
          /\ req' = [req EXCEPT ![p] =
                       Respond([@ EXCEPT !.granted = TRUE], 200, "", -1, TRUE)]
       \/ /\ ~users[e].exists
          /\ req' = [req EXCEPT ![p] = Respond(@, 200, "", -1, TRUE)]
          /\ UNCHANGED users
       \/ /\ \E m \in StorageErrors :
               req' = [req EXCEPT ![p] = Respond(@, 500, m, -1, FALSE)]
          /\ UNCHANGED users
  /\ UNCHANGED <<clock, apiKey, mobile>>

-----------------------------------------------------------------------------
(* server-proxy: POST /api/generate-prompt (handleGeneratePrompt) *)

\* catch: res.status(500).json({ message: error.message })
GpCatch(r) == Respond(r, 500, r.thrown, -1, FALSE)

StartGeneratePrompt(p) ==
  /\ CanBegin(p)
  /\ \E e \in Emails, valid \in BOOLEAN :
       req' = IF ~valid
                THEN [Begin(p, "genPrompt", e, "done") EXCEPT ![p] =
                        Respond(@, 400, "Theme and Email are required", -1, FALSE)]
                ELSE Begin(p, "genPrompt", e, "gp_txn")
  /\ UNCHANGED <<users, clock, apiKey, mobile>>

\* the transaction, then the API key check; the catch block answers 500
GpReserve(p) ==
  /\ req[p].pc = "gp_txn"
  /\ LET e == req[p].email IN
       \/ /\ ReserveError(users[e]) = ""
          /\ users' = [users EXCEPT ![e] = Deducted(@)]
          /\ req' = [req EXCEPT ![p] =
                       IF apiKey
                         THEN [@ EXCEPT !.pc = "gp_call", !.reserved = TRUE]
                         ELSE GpCatch(Throw([@ EXCEPT !.reserved = TRUE],
                                            MsgNoApiKey, "config"))]
       \/ /\ ReserveError(users[e]) # ""
          /\ req' = [req EXCEPT ![p] =
                       GpCatch(Throw(@, ReserveError(users[e]), "reserve"))]
          /\ UNCHANGED users
       \/ /\ \E m \in StorageErrors :
               req' = [req EXCEPT ![p] = GpCatch(Throw(@, m, "reserve"))]
          /\ UNCHANGED users
  /\ UNCHANGED <<clock, apiKey, mobile>>

\* await ai.models.generateContent(...): response.text may be undefined
GpInvoke(p) ==
  /\ req[p].pc = "gp_call"
  /\ \/ \E text \in BOOLEAN :
          req' = [req EXCEPT ![p].pc = "gp_read", ![p].invoked = @ + 1,
                             ![p].payload = text]
     \/ \E m \in ProviderErrors :
          req' = [req EXCEPT ![p] =
                    GpCatch(Throw([@ EXCEPT !.invoked = @ + 1], m, "provider"))]
  /\ UNCHANGED <<users, clock, apiKey, mobile>>

\* const doc = await userRef.get(); res.status(200).json(...)
GpFinalRead(p) ==
  /\ req[p].pc = "gp_read"
  /\ LET e == req[p].email IN
       \/ req' = [req EXCEPT ![p] =
                    Respond(@, 200, "", users[e].credits, req[p].payload)]
       \/ \E m \in StorageErrors :
            req' = [req EXCEPT ![p] = GpCatch(Throw(@, m, "store"))]
  /\ UNCHANGED <<users, clock, apiKey, mobile>>

-----------------------------------------------------------------------------
(* server-proxy: POST /api/generate-background (handleGenerateBackground) *)

\* if (error.message === "AI returned no image" ||
\*     error.message.includes("GoogleGenAI"))
GbRefundEligible(m) == m = MsgNoImage \/ Includes(m, "GoogleGenAI")

GbCatch(r) ==
  IF GbRefundEligible(r.thrown)
    THEN [r EXCEPT !.pc = "gb_rget"]
    ELSE Respond(r, StatusCode(r.thrown), r.thrown, -1, FALSE)

StartGenerateBackground(p) ==
  /\ CanBegin(p)
  /\ \E e \in Emails, valid \in BOOLEAN :
       req' = IF ~valid
                THEN [Begin(p, "genBackground", e, "done") EXCEPT ![p] =
                        Respond(@, 400, "Prompt and Email are required", -1, FALSE)]
                ELSE Begin(p, "genBackground", e, "gb_txn")
  /\ UNCHANGED <<users, clock, apiKey, mobile>>

\* the transaction, then the API key check
GbReserve(p) ==
  /\ req[p].pc = "gb_txn"
  /\ LET e == req[p].email IN
       \/ /\ ReserveError(users[e]) = ""
          /\ users' = [users EXCEPT ![e] = Deducted(@)]
          /\ req' = [req EXCEPT ![p] =
                       IF apiKey
                         THEN [@ EXCEPT !.pc = "gb_call", !.reserved = TRUE]
                         ELSE GbCatch(Throw([@ EXCEPT !.reserved = TRUE],
                                            MsgNoApiKey, "config"))]
       \/ /\ ReserveError(users[e]) # ""
          /\ req' = [req EXCEPT ![p] =
                       GbCatch(Throw(@, ReserveError(users[e]), "reserve"))]
          /\ UNCHANGED users
       \/ /\ \E m \in StorageErrors :
               req' = [req EXCEPT ![p] = GbCatch(Throw(@, m, "reserve"))]
          /\ UNCHANGED users
  /\ UNCHANGED <<clock, apiKey, mobile>>

\* await ai.models.generateContent(...) and the extraction of the image
GbInvoke(p) ==
  /\ req[p].pc = "gb_call"
  /\ \/ req' = [req EXCEPT ![p].pc = "gb_read", ![p].invoked = @ + 1]
     \/ req' = [req EXCEPT ![p] =
                  GbCatch(Throw([@ EXCEPT !.invoked = @ + 1],
                                MsgNoImage, "provider"))]
     \/ \E m \in ProviderErrors :
          req' = [req EXCEPT ![p] =
                    GbCatch(Throw([@ EXCEPT !.invoked = @ + 1], m, "provider"))]
  /\ UNCHANGED <<users, clock, apiKey, mobile>>

\* const finalUserDoc = await userRef.get(); res.status(200).json(...)
GbFinalRead(p) ==
  /\ req[p].pc = "gb_read"
  /\ LET e == req[p].email IN
       \/ req' = [req EXCEPT ![p] = Respond(@, 200, "", users[e].credits, TRUE)]
       \/ \E m \in StorageErrors :
            req' = [req EXCEPT ![p] = GbCatch(Throw(@, m, "store"))]
  /\ UNCHANGED <<users, clock, apiKey, mobile>>

\* refund, first half: const doc = await userRef.get()
GbRefundRead(p) ==
  /\ req[p].pc = "gb_rget"
  /\ LET e == req[p].email
         m == req[p].thrown
     IN
       \/ /\ users[e].exists
          /\ req' = [req EXCEPT ![p].pc = "gb_rupd",
                                ![p].seenCredits = users[e].credits]
       \/ /\ ~users[e].exists
          /\ req' = [req EXCEPT ![p] = Respond(@, StatusCode(m), m, -1, FALSE)]
       \/ req' = [req EXCEPT ![p] =
                    Respond([@ EXCEPT !.refundFailed = TRUE],
                            StatusCode(m), m, -1, FALSE)]
  /\ UNCHANGED <<users, clock, apiKey, mobile>>

\* refund, second half: await userRef.update({ credits: seen + 1 })
GbRefundWrite(p) ==
  /\ req[p].pc = "gb_rupd"
  /\ LET e == req[p].email
         m == req[p].thrown
     IN
       \/ /\ users' = [users EXCEPT ![e].credits = req[p].seenCredits + 1]
          /\ req' = [req EXCEPT ![p] =
                       Respond([@ EXCEPT !.refunded = @ + 1],
                               StatusCode(m), m, -1, FALSE)]
       \/ /\ req' = [req EXCEPT ![p] =
                       Respond([@ EXCEPT !.refundFailed = TRUE],
                               StatusCode(m), m, -1, FALSE)]
          /\ UNCHANGED users
  /\ UNCHANGED <<clock, apiKey, mobile>>

-----------------------------------------------------------------------------
(* Client service (unnamed/part_001): generateNewPrompt and                *)
(* generateOutdoorBackground call /api/deduct-credit, then the provider,   *)
(* and /api/refund-credit from their catch block.                          *)

ClientKinds == {"clPrompt", "clBackground"}

\* catch (error): the refund request is sent whatever was thrown
ClCatch(r) == [r EXCEPT !.pc = "cl_refund"]

StartClientGenerate(p) ==
  /\ CanBegin(p)
  /\ \E e \in Emails, k \in ClientKinds : req' = Begin(p, k, e, "cl_deduct")
  /\ UNCHANGED <<users, clock, apiKey, mobile>>

\* await fetch('/api/deduct-credit'): handleDeductCredit runs; the client
\* throws the error message when the response is not ok, then checks its key
ClDeduct(p) ==
  /\ req[p].pc = "cl_deduct"
  /\ LET e == req[p].email IN
       \/ /\ ReserveError(users[e]) = ""
          /\ users' = [users EXCEPT ![e] = Deducted(@)]
          /\ req' = [req EXCEPT ![p] =
                       IF apiKey
                         THEN [@ EXCEPT !.pc = "cl_call", !.reserved = TRUE,
                                        !.seenCredits = Deducted(users[e]).credits]
                         ELSE ClCatch(Throw([@ EXCEPT !.reserved = TRUE],
                                            MsgNoApiKey, "config"))]
       \/ /\ ReserveError(users[e]) # ""
          /\ req' = [req EXCEPT ![p] =
                       ClCatch(Throw(@, ReserveError(users[e]), "reserve"))]
          /\ UNCHANGED users
       \/ /\ \E m \in StorageErrors :
               req' = [req EXCEPT ![p] = ClCatch(Throw(@, m, "reserve"))]
          /\ UNCHANGED users
  /\ UNCHANGED <<clock, apiKey, mobile>>

\* await ai.models.generateContent(...); the result is returned, or thrown
ClInvoke(p) ==
  /\ req[p].pc = "cl_call"
  /\ \/ req' = [req EXCEPT ![p] =
                  Respond([@ EXCEPT !.invoked = @ + 1],
                          200, "", req[p].seenCredits, TRUE)]
     \/ req' = [req EXCEPT ![p] =
                  IF req[p].kind = "clPrompt"
                    THEN Respond([@ EXCEPT !.invoked = @ + 1],
                                 200, "", req[p].seenCredits, FALSE)
                    ELSE ClCatch(Throw([@ EXCEPT !.invoked = @ + 1],
                                       "No image generated", "provider"))]
     \/ \E m \in ProviderErrors :
          req' = [req EXCEPT ![p] =
                    ClCatch(Throw([@ EXCEPT !.invoked = @ + 1], m, "provider"))]
  /\ UNCHANGED <<users, clock, apiKey, mobile>>

\* catch: await fetch('/api/refund-credit') in try/catch: handleRefundCredit
\* runs (or the call fails); the client returns { null, credits: -1 }
ClRefund(p) ==
  /\ req[p].pc = "cl_refund"
  /\ LET e == req[p].email IN
       \/ /\ users[e].exists
          /\ users' = [users EXCEPT ![e] = Incremented(@)]
          /\ req' = [req EXCEPT ![p] =
                       Respond([@ EXCEPT !.refunded = @ + 1], 0, "", -1, FALSE)]
       \/ /\ req' = [req EXCEPT ![p] =
                       Respond([@ EXCEPT !.refundFailed = TRUE], 0, "", -1, FALSE)]
          /\ UNCHANGED users
  /\ UNCHANGED <<clock, apiKey, mobile>>

-----------------------------------------------------------------------------
(* Mobile app (android-app/App.tsx) and its billing service                *)
(* (src/services/billing, listed in android-app/SECURITY_REPORT.md)        *)

\* useState(5), useState(false); setupBilling runs on mount
MobileInit ==
  [setup |-> "init",       \* setupBilling: init, products, done
   sub |-> "idle",         \* handleSubscribe: idle, purchase, verify, finish
   gen |-> "idle",         \* handleGenerate: idle, fetch
   genSub |-> FALSE,       \* isSubscribed as seen by the running handleGenerate
   credits |-> 5,
   isSubscribed |-> FALSE,
   gens |-> 0,             \* generate calls made
   verified |-> FALSE]     \* the backend has answered ok to /verify-purchase

\* await initBilling(): its errors are caught inside
MobInitBilling ==
  /\ mobile.setup = "init"
  /\ mobile' = [mobile EXCEPT !.setup = "products"]
  /\ UNCHANGED backend

\* const purchases = await getAvailablePurchases(): the subscription
\* products the store lists for the skus ([] on error);
\* setIsSubscribed(hasSub); if (hasSub) setCredits(999)
MobGetAvailablePurchases ==
  /\ mobile.setup = "products"
  /\ \E listed \in BOOLEAN :
       mobile' = [mobile EXCEPT !.setup = "done",
                                !.isSubscribed = listed,
                                !.credits = IF listed THEN 999 ELSE @]
  /\ UNCHANGED backend

\* handleGenerate, out of credits: the alert's Subscribe button runs
\* handleSubscribe
MobOutOfCredits ==
  /\ mobile.gen = "idle" /\ mobile.sub = "idle"
  /\ mobile.credits <= 0 /\ ~mobile.isSubscribed
  /\ mobile' = [mobile EXCEPT !.sub = "purchase"]
  /\ UNCHANGED backend

\* handleGenerate up to its fetch
MobGenerate ==
  /\ mobile.gen = "idle"
  /\ ~(mobile.credits <= 0 /\ ~mobile.isSubscribed)
  /\ mobile.gens < MaxMobileGens
  /\ mobile' = [mobile EXCEPT !.gen = "fetch", !.gens = @ + 1,
                              !.genSub = mobile.isSubscribed]
  /\ UNCHANGED backend

\* the fetch answers: if (!isSubscribed) setCredits(c => c - 1); or the
\* catch block shows the fallback image
MobGenerateAnswer ==
  /\ mobile.gen = "fetch"
  /\ \E ok \in BOOLEAN :
       mobile' = [mobile EXCEPT !.gen = "idle",
                                !.credits = IF ok /\ ~mobile.genSub
                                              THEN @ - 1 ELSE @]
  /\ UNCHANGED backend

\* purchaseSubscription: await RNIap.requestSubscription({ sku })
MobRequestSubscription ==
  /\ mobile.sub = "purchase"
  /\ \E ok \in BOOLEAN :
       mobile' = [mobile EXCEPT !.sub = IF ok THEN "verify" ELSE "idle"]
  /\ UNCHANGED backend

\* purchaseSubscription: await fetch(.../verify-purchase);
\* if (!response.ok) throw
MobVerifyPurchase ==
  /\ mobile.sub = "verify"
  /\ \E ok \in BOOLEAN :
       mobile' = [mobile EXCEPT !.sub = IF ok THEN "finish" ELSE "idle",
                                !.verified = @ \/ ok]
  /\ UNCHANGED backend

\* purchaseSubscription: await RNIap.finishTransaction(...); then
\* handleSubscribe: setIsSubscribed(true); setCredits(999)
MobFinishTransaction ==
  /\ mobile.sub = "finish"
  /\ \E ok \in BOOLEAN :
       mobile' = [mobile EXCEPT !.sub = "idle",
                                !.isSubscribed = IF ok THEN TRUE ELSE @,
                                !.credits = IF ok THEN 999 ELSE @]
  /\ UNCHANGED backend

-----------------------------------------------------------------------------

Init ==
  /\ users \in [OneEmail -> InitDocs]
  /\ clock = 0
  /\ apiKey \in BOOLEAN
  /\ req = [p \in Procs |-> IdleReq]
  /\ mobile = MobileInit

GetUserStep(p) == StartGetUser(p) \/ GetUserRead(p) \/ GetUserSet(p)

CfStep(p) ==
  StartCfGenerate(p) \/ CfReserve(p) \/ CfInvoke(p) \/ CfFinalRead(p) \/ CfRefund(p)

DeductStep(p) == StartDeductCredit(p) \/ DeductCredit(p)

RefundStep(p) == StartRefundCredit(p) \/ RefundCredit(p)

CaptureStep(p) == StartCapture(p) \/ CaptureCall(p) \/ CaptureGrant(p)

GpStep(p) ==
  StartGeneratePrompt(p) \/ GpReserve(p) \/ GpInvoke(p) \/ GpFinalRead(p)

GbStep(p) ==
  \/ StartGenerateBackground(p) \/ GbReserve(p) \/ GbInvoke(p)
  \/ GbFinalRead(p) \/ GbRefundRead(p) \/ GbRefundWrite(p)

ClStep(p) == StartClientGenerate(p) \/ ClDeduct(p) \/ ClInvoke(p) \/ ClRefund(p)

\* No request is between its arrival and its response.
Quiet == \A q \in Procs : ~InFlight(req[q])

-----------------------------------------------------------------------------
(* Specifications *)

\* Every handler, requests running concurrently.
Next ==
  \E p \in 1..NumReq :
    \/ GetUserStep(p) \/ CfStep(p) \/ DeductStep(p) \/ RefundStep(p)
    \/ CaptureStep(p) \/ GpStep(p) \/ GbStep(p) \/ ClStep(p)

Spec == Init /\ [][Next]_vars

\* Concurrent deduct-credit requests only.
NextReserve ==
  \E p \in 1..NumReserve : DeductStep(p)

SpecReserve == Init /\ [][NextReserve]_vars

\* Get user, generate background (Cloud Function and server-proxy), deduct,
\* refund and capture, running concurrently.
NextLedger ==
  \E p \in 1..NumLedger :
    \/ GetUserStep(p) \/ CfStep(p) \/ GbStep(p)
    \/ DeductStep(p) \/ RefundStep(p) \/ CaptureStep(p)

SpecLedger == Init /\ [][NextLedger]_vars

\* The Cloud Function generate route and the client-orchestrated flow,
\* running concurrently.
NextGenerate ==
  \E p \in 1..NumGen : CfStep(p) \/ ClStep(p)

SpecGenerate == Init /\ [][NextGenerate]_vars

\* Get-user requests one after the other.
NextBootstrap ==
  \E p \in 1..NumBoot :
    (Quiet /\ StartGetUser(p)) \/ GetUserRead(p) \/ GetUserSet(p)

SpecBootstrap == Init /\ [][NextBootstrap]_vars

\* Get-user and the two generate-background handlers, one request after
\* the other.
NextSeq ==
  \E p \in 1..NumSeq :
    \/ Quiet /\ (StartGetUser(p) \/ StartCfGenerate(p) \/ StartGenerateBackground(p))
    \/ GetUserRead(p) \/ GetUserSet(p)
    \/ CfReserve(p) \/ CfInvoke(p) \/ CfFinalRead(p) \/ CfRefund(p)
    \/ GbReserve(p) \/ GbInvoke(p) \/ GbFinalRead(p)
    \/ GbRefundRead(p) \/ GbRefundWrite(p)

SpecSeq == Init /\ [][NextSeq]_vars

\* Get-user and Cloud Function generate requests, one after the other.
NextE2E ==
  \E p \in 1..NumE2E :
    \/ Quiet /\ (StartGetUser(p) \/ StartCfGenerate(p))
    \/ GetUserRead(p) \/ GetUserSet(p)
    \/ CfReserve(p) \/ CfInvoke(p) \/ CfFinalRead(p) \/ CfRefund(p)

SpecE2E == Init /\ [][NextE2E]_vars

\* Concurrent capture-order requests only (all for the same order).
NextCapture == \E p \in 1..NumCapture : CaptureStep(p)

SpecCapture == Init /\ [][NextCapture]_vars

\* Concurrent deduct-credit requests on the in-memory store.
NextMock ==
  \E p \in 1..NumMock :
    StartMockDeduct(p) \/ MockDeductGet(p) \/ MockDeductCommit(p)

SpecMock == Init /\ [][NextMock]_vars

\* Two accounts: get user, Cloud Function generate, deduct, refund and
\* capture requests, running concurrently, each for either email.
InitTwo ==
  /\ users \in [TwoEmails ->
                  {NoDoc, [exists |-> TRUE, credits |-> TwoInitCredits,
                           isPro |-> FALSE, createdAt |-> 0]}]
  /\ clock = 0
  /\ apiKey \in BOOLEAN
  /\ req = [p \in Procs |-> IdleReq]
  /\ mobile = MobileInit

NextTwo ==
  \E p \in 1..NumTwo :
    \/ GetUserStep(p) \/ CfStep(p)
    \/ DeductStep(p) \/ RefundStep(p) \/ CaptureStep(p)

SpecTwo == InitTwo /\ [][NextTwo]_vars

\* Cloud Function generate requests whose awaited calls all answer in the
\* end: a handler that can take a step eventually takes one.
CfProgress(p) == CfReserve(p) \/ CfInvoke(p) \/ CfFinalRead(p) \/ CfRefund(p)

NextLive == \E p \in 1..NumLive : CfStep(p)

SpecLive ==
  Init /\ [][NextLive]_vars /\ \A p \in 1..NumLive : WF_vars(CfProgress(p))

\* Cloud Function generate requests that may stop after their reservation,
\* with deduct-credit and refund-credit requests beside them.
NextCrash ==
  \E p \in 1..NumCrash :
    CfStep(p) \/ CfStop(p) \/ DeductStep(p) \/ RefundStep(p)

SpecCrash == Init /\ [][NextCrash]_vars

\* The mobile app on its own.
NextMobile ==
  \/ MobInitBilling \/ MobGetAvailablePurchases
  \/ MobOutOfCredits \/ MobGenerate \/ MobGenerateAnswer
  \/ MobRequestSubscription \/ MobVerifyPurchase \/ MobFinishTransaction

SpecMobile == Init /\ [][NextMobile]_vars

-----------------------------------------------------------------------------
(* Claims *)

Done(p) == req[p].pc = "done"

\* C1 (SpecReserve): no double-spend.  When NumReserve concurrent
\* deduct-credit requests on one existing account with starting balance
\* B < NumReserve have all been answered, and each was answered by the
\* transaction itself (200 or 403, no storage fault, no invalid input),
\* exactly B succeeded, the other NumReserve - B were refused with
\* "Insufficient credits", and the balance is 0.
C1_Runs(e) ==
  /\ users[e].exists
  /\ \A p \in 1..NumReserve :
       /\ Done(p) /\ req[p].kind = "deduct" /\ req[p].email = e
       /\ req[p].status \in {200, 403}
  /\ req[1].startBal < NumReserve

C1_NoDoubleSpend ==
  \A e \in Emails :
    C1_Runs(e) =>
      LET B == req[1].startBal
          ok == {p \in 1..NumReserve : req[p].status = 200 /\ req[p].reserved}
          no == {p \in 1..NumReserve :
                   /\ req[p].status = 403 /\ req[p].message = MsgInsufficient
                   /\ ~req[p].reserved}
      IN /\ Cardinality(ok) = B
         /\ Cardinality(no) = NumReserve - B
         /\ users[e].credits = 0

C1_Witness ==
  \E e \in Emails :
    /\ C1_Runs(e)
    /\ req[1].startBal = MaxInitCredits
    /\ \E p \in 1..NumReserve : req[p].status = 403

\* C2 (SpecLedger): in every reachable state every account's credits is an
\* integer >= 0, and a reservation step taken on an existing account whose
\* balance is below the amount leaves the store as it was and commits
\* nothing: the request is refused (or hit a storage fault), never clamped.
ReservePcs == {"cf_txn", "dc_txn", "gp_txn", "gb_txn", "cl_deduct"}

C2_Rejected ==
  \A p \in Procs :
    ( /\ req[p].pc \in ReservePcs
      /\ req'[p] # req[p]
      /\ users[req[p].email].exists
      /\ users[req[p].email].credits < Amount )
    => /\ users' = users
       /\ ~req'[p].reserved
       /\ \/ req'[p].thrown = MsgInsufficient
          \/ req'[p].thrown \in StorageErrors
          \/ req'[p].message \in {MsgInsufficient} \cup StorageErrors

C2_NonNegative ==
  /\ [](\A e \in Emails : users[e].credits \in Nat)
  /\ [][C2_Rejected]_vars

C2_Witness ==
  \E p \in Procs :
    /\ Done(p) /\ req[p].kind \in {"cfGenerate", "deduct"}
    /\ req[p].status = 403 /\ req[p].message = MsgInsufficient
    /\ users[req[p].email].exists /\ users[req[p].email].credits = 0

\* The request started last: nothing arrived after it.
Latest(p) == \A q \in Procs : q > p => req[q].pc = "idle"

ServerGenerateKinds == {"cfGenerate", "genPrompt", "genBackground"}

\* C3 (SpecSeq): conservation under provider failure.  For a
\* generate-background request that ran with no other request in flight,
\* whose reservation committed, whose provider call then failed, and none
\* of whose refund writes failed, the balance after the response equals
\* the balance before the request.
C3_Conservation ==
  \A p \in Procs :
    ( /\ Done(p) /\ Latest(p)
      /\ req[p].kind \in {"cfGenerate", "genBackground"}
      /\ req[p].reserved /\ req[p].thrownBy = "provider"
      /\ ~req[p].refundFailed )
    => users[req[p].email].credits = req[p].startBal

\* C4 (SpecGenerate): reservation before invocation.  A request never
\* calls the provider more often than it has committed reservations before
\* the call, and a request whose reservation failed calls it zero times.
C4_ReserveBeforeInvoke ==
  \A p \in Procs :
    /\ req[p].invoked <= (IF req[p].reserved THEN 1 ELSE 0)
    /\ req[p].thrownBy = "reserve" => (req[p].invoked = 0 /\ ~req[p].reserved)

C4_Witness ==
  \E p, q \in Procs :
    /\ Done(p) /\ req[p].thrownBy = "reserve" /\ req[p].thrown = MsgInsufficient
    /\ req[p].invoked = 0
    /\ req[q].reserved /\ req[q].invoked = 1

\* C5 (Spec): every answered generate request that passed validation is
\* delivered (payload, one credit taken), rejected (reservation failed, no
\* credit moved, provider not called) or failed-and-refunded (error, the
\* reserved credit given back once).
C5_Delivered(r) ==
  r.status = 200 /\ r.payload /\ r.reserved /\ r.refunded = 0

C5_Rejected(r) ==
  r.status # 200 /\ ~r.reserved /\ r.invoked = 0 /\ r.refunded = 0

C5_FailedRefunded(r) == r.status # 200 /\ r.reserved /\ r.refunded = 1

C5_ThreeOutcomes ==
  \A p \in Procs :
    (Done(p) /\ req[p].kind \in ServerGenerateKinds /\ req[p].status # 400)
    => \/ C5_Delivered(req[p])
       \/ C5_Rejected(req[p])
       \/ C5_FailedRefunded(req[p])

\* C6 (Spec): when no request is in flight, an account created during the
\* run holds 5 + 100 x (captures answered success) - (generations answered
\* with a payload) credits.
C6_Captures(e) ==
  {p \in Procs : /\ Done(p) /\ req[p].kind = "capture" /\ req[p].email = e
                 /\ req[p].status = 200}

C6_Payloads(e) ==
  {p \in Procs : /\ Done(p) /\ req[p].email = e
                 /\ req[p].kind \in ServerGenerateKinds \cup ClientKinds
                 /\ req[p].status = 200 /\ req[p].payload}

C6_NoSilentLossOrGain ==
  \A e \in Emails :
    (Quiet /\ users[e].exists /\ users[e].createdAt >= 1)
    => users[e].credits =
         FreeCredits + ProBonus * Cardinality(C6_Captures(e))
           - Cardinality(C6_Payloads(e))

\* C7 (Spec): a generation request whose reservation did not commit never
\* applies a refund write.
C7_NoRefundWithoutCharge ==
  \A p \in Procs :
    (req[p].kind \in ServerGenerateKinds \cup ClientKinds /\ ~req[p].reserved)
    => req[p].refunded = 0

\* C8 (Spec): a get-user request never changes a document that exists.
C8_GetUserStep(p) == req[p].kind = "getUser" /\ req'[p] # req[p]

C8_CreateIfAbsent ==
  [][\A p \in Procs :
       (C8_GetUserStep(p) /\ users[req[p].email].exists) => users' = users]_vars

\* C9 (SpecBootstrap): of the get-user requests answered 200, one after
\* the other, for an email that had no account at the start, exactly one
\* wrote the default document; the account holds credits 5, isPro false and
\* the creation time of that one write, and every answer carries credits 5.
C9_Answered(e) ==
  {p \in 1..NumBoot : /\ Done(p) /\ req[p].kind = "getUser"
                      /\ req[p].email = e /\ req[p].status = 200}

C9_New(e) == ~users[e].exists \/ users[e].createdAt >= 1

C9_IdempotentBootstrap ==
  \A e \in Emails :
    (C9_New(e) /\ Cardinality(C9_Answered(e)) >= 2)
    => /\ Cardinality({p \in C9_Answered(e) : req[p].created}) = 1
       /\ \A p, q \in C9_Answered(e) : (p < q) => ~req[q].created
       /\ users[e] = NewUser(1)
       /\ clock = 1
       /\ \A p \in C9_Answered(e) : req[p].credits = FreeCredits

C9_Witness ==
  \E e \in Emails :
    /\ Cardinality(C9_Answered(e)) = 2
    /\ \E p \in C9_Answered(e) : req[p].created
    /\ \E p \in C9_Answered(e) : ~req[p].created

\* C10 (SpecSeq): refund failure isolation.  When the provider call of a
\* generate-background request failed and its refund write failed too, the
\* response has status 500 and the provider's message, and (no other
\* request having run since it arrived) the balance is one below the
\* balance at arrival.
C10_RefundFailureIsolation ==
  \A p \in Procs :
    ( /\ Done(p) /\ req[p].kind \in {"cfGenerate", "genBackground"}
      /\ req[p].thrownBy = "provider" /\ req[p].refundFailed )
    => /\ req[p].status = 500
       /\ req[p].message = req[p].thrown
       /\ req[p].message \in ProviderErrors \cup {MsgNoImage}
       /\ Latest(p) => users[req[p].email].credits = req[p].startBal - 1

C10_Witness ==
  \E p \in Procs :
    /\ Done(p) /\ req[p].kind = "cfGenerate"
    /\ req[p].thrownBy = "provider" /\ req[p].refundFailed
    /\ req[p].message = MsgNoImage

\* C11 (SpecSeq): a generate-background request never calls the provider
\* more than once, and once it is answered after its reservation committed
\* it has called the provider exactly once.
C11_InvokedExactlyOnce ==
  \A p \in Procs :
    /\ req[p].invoked <= 1
    /\ ( /\ Done(p) /\ req[p].kind \in {"cfGenerate", "genBackground"}
         /\ req[p].reserved )
       => req[p].invoked = 1

MeteredKinds == {"cfGenerate", "genPrompt", "genBackground", "deduct"}

\* C12 (Spec): a metered endpoint answers a failure with 403 exactly when
\* the failure is "Insufficient credits"; every other failure past input
\* validation is answered 500.
C12_DistinctStatus ==
  \A p \in Procs :
    ( /\ Done(p) /\ req[p].kind \in MeteredKinds
      /\ req[p].status \notin {200, 400} )
    => /\ req[p].status \in {403, 500}
       /\ req[p].status = 403 <=> req[p].message = MsgInsufficient

\* C13 (SpecLedger): the step that answers a generate-background request
\* with 200 is taken after the request's own reservation committed and puts
\* the balance stored at that moment into the response; when no other
\* request has arrived at all, that value is the balance before the request
\* minus 1.
C13_AnswerStep(p) ==
  /\ req[p].pc \in {"cf_read", "gb_read"}
  /\ req'[p].pc = "done" /\ req'[p].status = 200

C13_Alone(p) == \A q \in Procs \ {p} : req[q].pc = "idle"

C13_FreshBalance ==
  [][\A p \in Procs :
       C13_AnswerStep(p) =>
         /\ req[p].reserved
         /\ req'[p].credits = users[req[p].email].credits
         /\ C13_Alone(p) => req'[p].credits = req[p].startBal - 1]_vars

C13_Witness ==
  \E p \in Procs :
    /\ Done(p) /\ req[p].kind \in {"cfGenerate", "genBackground"}
    /\ req[p].status = 200 /\ C13_Alone(p)
    /\ req[p].startBal = 2 /\ req[p].credits = 1

\* C13 as stated: the credits value of a successful generate response is
\* never the balance before the request.
C13_NeverPreRequestBalance ==
  \A p \in Procs :
    ( /\ Done(p) /\ req[p].kind \in {"cfGenerate", "genBackground"}
      /\ req[p].status = 200 )
    => req[p].credits # req[p].startBal

\* C14 (SpecLedger): no lost update.  For an account that existed at the
\* start and was not written by getOrCreateUser, once every request has
\* been answered the balance is the initial balance minus the committed
\* reservations plus the applied refund writes plus 100 per granted
\* capture.
C14_Count(e, F(_)) ==
  Cardinality({p \in Procs : req[p].kind # "none" /\ req[p].email = e /\ F(req[p])})

C14_Reserved(r) == r.reserved

C14_Refunded(r) == r.refunded = 1

C14_Granted(r) == r.granted

C14_NoLostUpdate ==
  \A e \in Emails :
    ( /\ Quiet /\ req[1].kind # "none"
      /\ users[e].exists /\ users[e].createdAt = 0 )
    => users[e].credits =
         req[1].startBal - C14_Count(e, C14_Reserved)
           + C14_Count(e, C14_Refunded) + ProBonus * C14_Count(e, C14_Granted)

\* C15 (SpecLedger): while a request waits for the provider its own
\* reservation has committed, and every other request that stands before a
\* reservation, refund or grant transaction on the account can commit it
\* in its next step.
ProviderPcs == {"cf_call", "gb_call"}

C15_CanCommit(q) ==
  LET doc == users[req[q].email] IN
    /\ (req[q].pc = "dc_txn" /\ ReserveError(doc) = "")
         => ENABLED (DeductCredit(q) /\ req'[q].reserved)
    /\ (req[q].pc = "cf_txn" /\ ReserveError(doc) = "")
         => ENABLED (CfReserve(q) /\ req'[q].reserved)
    /\ (req[q].pc = "rf_txn" /\ doc.exists)
         => ENABLED (RefundCredit(q) /\ req'[q].refunded = 1)
    /\ (req[q].pc = "cp_txn" /\ doc.exists)
         => ENABLED (CaptureGrant(q) /\ req'[q].granted)

C15_NoTransactionDuringCall ==
  \A p \in Procs :
    req[p].pc \in ProviderPcs =>
      /\ req[p].reserved
      /\ \A q \in Procs \ {p} : C15_CanCommit(q)

C15_Witness ==
  /\ req[1].pc = "cf_call" /\ req[1].startBal = 2
  /\ Done(2) /\ req[2].kind = "deduct" /\ req[2].status = 200
  /\ req[2].startBal = req[1].startBal - 1

\* C16 (SpecLedger): the step in which a capture request, reported
\* COMPLETED, commits its transaction on an existing account adds exactly
\* 100 to the balance stored at that moment and sets isPro, in that one
\* step, whatever other requests have done to the account before.
C16_GrantStep(p) ==
  /\ req[p].pc = "cp_txn" /\ req'[p].pc = "done" /\ req'[p].status = 200
  /\ users[req[p].email].exists

C16_GrantAdditivity ==
  [][\A p \in Procs :
       C16_GrantStep(p) =>
         LET e == req[p].email IN
           /\ req[p].captureStatus = "COMPLETED"
           /\ users'[e].credits = users[e].credits + 100
           /\ users'[e].isPro
           /\ users'[e].createdAt = users[e].createdAt
           /\ req'[p].granted]_vars

C16_Witness ==
  \E p, q \in Procs, e \in Emails :
    /\ Done(p) /\ req[p].kind = "capture" /\ req[p].granted
    /\ Done(q) /\ req[q].kind = "deduct" /\ req[q].reserved
    /\ req[1].startBal = 2 /\ users[e].credits = 101 /\ users[e].isPro

\* C17 (SpecLedger): a capture request changes the account only after the
\* processor's answer was COMPLETED; a capture request that got another
\* status or an error is answered 400 or 500 and has granted nothing.
C17_GrantOnlyOnCompleted ==
  /\ [][\A p \in Procs :
          (req[p].kind = "capture" /\ req'[p] # req[p] /\ users' # users)
          => req[p].captureStatus = "COMPLETED"]_vars
  /\ [](\A p \in Procs :
          ( /\ Done(p) /\ req[p].kind = "capture"
            /\ req[p].captureStatus \in {"PENDING", "error"} )
          => req[p].status \in {400, 500} /\ ~req[p].granted)

C17_Witness ==
  \E p, q \in Procs :
    /\ Done(p) /\ req[p].kind = "capture" /\ req[p].captureStatus = "PENDING"
    /\ req[p].status = 400
    /\ Done(q) /\ req[q].kind = "capture" /\ req[q].captureStatus = "error"
    /\ req[q].status = 500
    /\ users[req[p].email].exists /\ ~users[req[p].email].isPro
    /\ users[req[p].email].credits = req[1].startBal

\* C18 (SpecLedger): an account with isPro set has a capture request for
\* its email that was reported COMPLETED and committed its grant; and no
\* step of a request other than a capture turns isPro from false to true.
C18_ProOnlyByCapture ==
  /\ [](\A e \in Emails :
          users[e].isPro =>
            \E p \in Procs :
              /\ req[p].kind = "capture" /\ req[p].email = e
              /\ req[p].captureStatus = "COMPLETED" /\ req[p].granted)
  /\ [][\A e \in Emails :
          (~users[e].isPro /\ users'[e].isPro)
          => \E p \in Procs : req[p].pc = "cp_txn" /\ req'[p].granted]_vars

C18_Witness ==
  \E e \in Emails, p, q \in Procs :
    /\ users[e].isPro
    /\ req[p].kind = "capture" /\ req[p].granted
    /\ Done(q) /\ req[q].kind = "getUser" /\ req[q].status = 200

\* C19 (SpecLedger): a generate-background request that got past input
\* validation and the configuration check, for an email that has no
\* account, and whose transaction did not hit a storage fault, is answered
\* 500 "User not found" without a reservation, a provider call or a refund
\* write; and no step of a generate request on an absent account changes
\* the store.
C19_Ran(r) ==
  /\ r.pc = "done" /\ r.kind \in {"cfGenerate", "genBackground"}
  /\ r.status # 400
  /\ r.message # "Server misconfiguration: API Key missing"

C19_UserNotFound ==
  /\ [](\A p \in Procs :
          ( /\ C19_Ran(req[p]) /\ ~users[req[p].email].exists
            /\ req[p].thrown \notin StorageErrors )
          => /\ req[p].status = 500 /\ req[p].message = MsgUserNotFound
             /\ ~req[p].reserved /\ req[p].invoked = 0 /\ req[p].refunded = 0
             /\ users[req[p].email] = NoDoc)
  /\ [][\A p \in Procs :
          ( /\ req[p].kind \in {"cfGenerate", "genBackground"}
            /\ req'[p] # req[p] /\ ~users[req[p].email].exists )
          => users' = users]_vars

C19_Witness ==
  \E p, q \in Procs :
    /\ C19_Ran(req[p]) /\ req[p].kind = "cfGenerate"
    /\ C19_Ran(req[q]) /\ req[q].kind = "genBackground"
    /\ ~users[req[p].email].exists /\ ~users[req[q].email].exists
    /\ req[p].message = MsgUserNotFound /\ req[q].message = MsgUserNotFound

\* C20 (SpecSeq): once a generate-background request that reached its
\* reservation transaction has been answered, an account for its email
\* exists.
C20_CreatedByMeteredCall ==
  \A p \in Procs :
    ( /\ Done(p) /\ req[p].kind \in {"cfGenerate", "genBackground"}
      /\ (req[p].reserved \/ req[p].thrownBy = "reserve") )
    => users[req[p].email].exists

\* C21 (SpecE2E): for a new email, with the Cloud Function: a fetch that
\* creates the account answers credits 5 (isPro false); a generate whose
\* provider call succeeds answers a payload and credits 4; a second
\* generate whose provider call fails (its refund write, if any, not
\* failing) answers 500; a following fetch answers credits 4.
C21_Scenario ==
  /\ \A p \in 1..4 : Done(p)
  /\ req[1].kind = "getUser" /\ req[1].created /\ req[1].status = 200
  /\ req[2].kind = "cfGenerate" /\ req[2].status = 200
  /\ req[3].kind = "cfGenerate" /\ req[3].thrownBy = "provider"
  /\ ~req[3].refundFailed
  /\ req[4].kind = "getUser" /\ req[4].status = 200

C21_EndToEnd ==
  C21_Scenario =>
    /\ req[1].credits = 5
    /\ req[2].payload /\ req[2].credits = 4
    /\ req[3].status = 500 /\ req[3].message = req[3].thrown
    /\ req[4].credits = 4
    /\ \A e \in Emails : ~users[e].isPro

\* C22 (SpecMobile): the mobile app shows premium state (isSubscribed, or
\* credits 999) only after the backend has answered ok to the purchase
\* verification.
C22_PremiumOnlyVerified ==
  (mobile.isSubscribed \/ mobile.credits = 999) => mobile.verified

\* C23 (SpecLedger): a capture request answered {success: true} has
\* committed the grant (credits + 100, isPro) on the account it names.
C23_SuccessImpliesGrant ==
  \A p \in Procs :
    (Done(p) /\ req[p].kind = "capture" /\ req[p].status = 200)
    => req[p].granted /\ users[req[p].email].exists

\* C24 (SpecSeq): a Cloud Function generate request that caught an error
\* has attempted a refund (applied or failed) exactly if the message
\* contains "AI" or "GoogleGenAI"; after a provider failure "fetch failed",
\* which contains neither, nothing was attempted, the answer is 500 and
\* the balance is one below the balance before the request.
C24_Attempted(r) == r.refunded = 1 \/ r.refundFailed

C24_RefundIffMessage ==
  \A p \in Procs :
    (Done(p) /\ req[p].kind = "cfGenerate" /\ req[p].thrownBy # "")
    => /\ C24_Attempted(req[p])
            <=> (Includes(req[p].thrown, "AI")
                   \/ Includes(req[p].thrown, "GoogleGenAI"))
       /\ req[p].thrown \in {MsgNoImage, "UNAVAILABLE",
                              "GoogleGenAI: request failed"}
            => C24_Attempted(req[p])
       /\ (req[p].thrownBy = "provider" /\ req[p].thrown = "fetch failed")
            => /\ ~C24_Attempted(req[p]) /\ req[p].status = 500
               /\ Latest(p) => users[req[p].email].credits = req[p].startBal - 1

C24_Witness ==
  \E p, q \in Procs :
    /\ Done(p) /\ req[p].kind = "cfGenerate" /\ req[p].refunded = 1
    /\ req[p].thrown = "GoogleGenAI: request failed"
    /\ Done(q) /\ req[q].kind = "cfGenerate" /\ Latest(q)
    /\ req[q].thrownBy = "provider" /\ req[q].thrown = "fetch failed"
    /\ req[q].refunded = 0
    /\ users[req[q].email].credits = req[q].startBal - 1

\* C27 (Spec): with the API key not configured, a generate request that
\* passed input validation, on an account with at least one credit and
\* with no other request around, is answered 500 and leaves the balance
\* as it was.
C27_NoKeyNoCharge ==
  \A p \in Procs :
    ( /\ Done(p) /\ req[p].kind \in ServerGenerateKinds
      /\ \A q \in Procs \ {p} : req[q].pc = "idle"
      /\ ~apiKey /\ req[p].status # 400
      /\ users[req[p].email].exists /\ req[p].startBal >= 1 )
    => /\ req[p].status = 500
       /\ users[req[p].email].credits = req[p].startBal

\* C25 (SpecCapture): with capture requests only, an existing account's
\* balance is its initial balance plus 100 for every capture request that
\* was reported COMPLETED and answered success, however many there are;
\* and every capture reported COMPLETED whose transaction did not hit a
\* storage fault is answered success and granted, replay or not.
C25_Completed ==
  {p \in 1..NumCapture :
     /\ Done(p) /\ req[p].captureStatus = "COMPLETED" /\ req[p].status = 200}

C25_NotIdempotent ==
  \A e \in Emails :
    (users[e].exists /\ req[1].kind = "capture")
    => /\ users[e].credits = req[1].startBal + 100 * Cardinality(C25_Completed)
       /\ \A p \in 1..NumCapture :
            ( /\ Done(p) /\ req[p].captureStatus = "COMPLETED"
              /\ req[p].message \notin StorageErrors )
            => req[p].status = 200 /\ req[p].granted

C25_Witness ==
  \E e \in Emails :
    /\ Cardinality(C25_Completed) = NumCapture
    /\ users[e].credits = 1 + 100 * NumCapture

\* C26 (SpecMock): on the in-memory store, when NumMock concurrent
\* deduct-credit requests on an existing account with starting balance B
\* have all been answered 200 or 403, the successes number min(B, NumMock),
\* the others were refused with "Insufficient credits", and the balance is
\* B minus the successes (two requests on balance 1: one success, one
\* refusal, balance 0), as with the transactional store.
C26_Runs(e) ==
  /\ users[e].exists
  /\ \A p \in 1..NumMock :
       /\ Done(p) /\ req[p].kind = "mockDeduct" /\ req[p].email = e
       /\ req[p].status \in {200, 403}

C26_MockNoDoubleSpend ==
  \A e \in Emails :
    C26_Runs(e) =>
      LET B == req[1].startBal
          n == IF B < NumMock THEN B ELSE NumMock
          ok == {p \in 1..NumMock : req[p].status = 200 /\ req[p].reserved}
          no == {p \in 1..NumMock :
                   /\ req[p].status = 403 /\ req[p].message = MsgInsufficient
                   /\ ~req[p].reserved}
      IN /\ Cardinality(ok) = n
         /\ Cardinality(no) = NumMock - n
         /\ users[e].credits = B - n
         /\ \A p \in ok : req[p].credits \in (B - n)..(B - 1)

C26_Witness ==
  \E e \in Emails :
    /\ C26_Runs(e) /\ req[1].startBal = 1 /\ req[2].startBal = 1
    /\ \E p, q \in 1..2 : req[p].status = 200 /\ req[q].status = 403
    /\ users[e].credits = 0

\* C28 (SpecTwo): a step of a request for one email leaves the record of
\* every other email as it was; and the balance of an account that existed
\* at the start is, in every state, its balance when its own first request
\* arrived minus its own requests' reservations plus their refunds plus
\* 100 per grant of theirs, whatever the requests for the other email did.
C28_Own(e) == {p \in Procs : req[p].kind # "none" /\ req[p].email = e}

C28_First(e) == CHOOSE p \in C28_Own(e) : \A q \in C28_Own(e) : p <= q

C28_Independent ==
  /\ [][\A p \in Procs :
          req'[p] # req[p] =>
            \A e \in Emails \ {req'[p].email} : users'[e] = users[e]]_vars
  /\ [](\A e \in Emails :
          (users[e].exists /\ users[e].createdAt = 0 /\ C28_Own(e) # {})
          => users[e].credits =
               req[C28_First(e)].startBal
                 - Cardinality({p \in C28_Own(e) : req[p].reserved})
                 + Cardinality({p \in C28_Own(e) : req[p].refunded = 1})
                 + ProBonus * Cardinality({p \in C28_Own(e) : req[p].granted}))

C28_Witness ==
  \E p, q \in Procs :
    /\ req[p].email = "a@x.com" /\ req[p].reserved /\ req[p].pc = "cf_call"
    /\ req[q].email = "b@x.com" /\ req[q].granted /\ Done(q)
    /\ users["a@x.com"].credits = TwoInitCredits - 1
    /\ users["b@x.com"].credits = TwoInitCredits + ProBonus

\* C29 (SpecLive): every Cloud Function generate request that has arrived
\* is eventually answered, and as delivered, as failed and refunded, or as
\* rejected before any charge.
C29_Terminal(r) ==
  /\ r.pc = "done"
  /\ C5_Delivered(r) \/ C5_FailedRefunded(r) \/ C5_Rejected(r)

C29_Terminates ==
  \A p \in 1..NumLive : InFlight(req[p]) ~> C29_Terminal(req[p])

\* C30 (SpecCrash): a request that stopped after its reservation never
\* moves again; every change of the store is a step of a request that has
\* not stopped; and the balance of an account that existed at the start is
\* always the initial balance minus the reservations plus the refund
\* writes of the requests, so the credit of a stopped request stays taken
\* unless another request refunds.
C30_NoAutoRefund ==
  /\ [][\A p \in Procs : req[p].pc = "stopped" => req'[p] = req[p]]_vars
  /\ [][users' # users =>
          \E q \in Procs : req[q].pc # "stopped" /\ req'[q] # req[q]]_vars
  /\ [](\A e \in Emails :
          (users[e].exists /\ req[1].kind # "none")
          => users[e].credits =
               req[1].startBal
                 - Cardinality({p \in Procs : req[p].reserved})
                 + Cardinality({p \in Procs : req[p].refunded = 1}))

C30_Witness ==
  \E p, q \in Procs :
    /\ req[p].pc = "stopped" /\ req[p].reserved /\ req[p].refunded = 0
    /\ req[p].startBal = 1
    /\ q > p /\ Done(q) /\ req[q].kind = "cfGenerate"
    /\ req[q].status = 403 /\ req[q].startBal = 0
    /\ users[req[p].email].credits = 0

====
